---- MODULE Spec2Model ----
(***************************************************************************)
(* clean_dataframe of src/main.py as a state machine.                      *)
(*                                                                         *)
(* A table is a record [index, pos, cols]: the row labels, the position    *)
(* each row had in the table passed by the caller, and the columns in      *)
(* left-to-right order.  A column is [name, dtype, cells].  A cell is a    *)
(* tagged value: Missing, Text (a sequence of code points), Number (a      *)
(* rational <<numerator, denominator>>) or Timestamp.                      *)
(*                                                                         *)
(* DataFrames are objects: heap maps the two references the call can hold  *)
(* ("caller": the table the caller passed, "priv": the table the local     *)
(* name df is rebound to) to their contents; df is the reference the local *)
(* name holds.  pc is the position inside clean_dataframe.                 *)
(***************************************************************************)
EXTENDS Integers, Sequences, FiniteSets, TLC

VARIABLES heap, df, pc, fill_missing, constant_fill, arg

vars == <<heap, df, pc, fill_missing, constant_fill, arg>>

----------------------------------------------------------------------------
(* Bounds of the enumerated inputs. *)

\* rows of the two-column tables (text column, numeric column)
MaxRows == 3
\* rows of the one-column tables whose text column mixes every kind of cell
TextRows == 2
\* rows of the one-column numeric tables
NumRows == 4
\* length of the strings of the one-cell tables
MaxLen == 5

----------------------------------------------------------------------------
(* Cells. *)

Missing == [k |-> "Missing", s |-> <<>>, v |-> <<0, 1>>]
Text(s) == [k |-> "Text", s |-> s, v |-> <<0, 1>>]
Number(n, d) == [k |-> "Number", s |-> <<>>, v |-> <<n, d>>]
Timestamp(t) == [k |-> "Timestamp", s |-> <<>>, v |-> <<t, 1>>]
\* the outcome of a parse that raises
Fail == [k |-> "Fail", s |-> <<>>, v |-> <<0, 1>>]

IsNull(x) == x.k = "Missing"
IsStr(x) == x.k = "Text"

Pick(s, idx) == [i \in 1..Len(idx) |-> s[idx[i]]]

----------------------------------------------------------------------------
(* Rationals: the values of Number cells. *)

RECURSIVE Gcd(_, _)
Gcd(a, b) == IF b = 0 THEN a ELSE Gcd(b, a % b)

QNorm(q) ==
    LET g == Gcd(q[1], q[2])
    IN  IF g = 0 THEN <<0, 1>> ELSE <<q[1] \div g, q[2] \div g>>

QAdd(a, b) == QNorm(<<a[1] * b[2] + b[1] * a[2], a[2] * b[2]>>)
QDiv(a, n) == QNorm(<<a[1], a[2] * n>>)
QLess(a, b) == a[1] * b[2] < b[1] * a[2]

----------------------------------------------------------------------------
(* Text: str.strip, str.lower, and the two regex replacements. *)

\* the characters str.strip() strips and \s matches
IsSpace(c) == c \in {9, 10, 11, 12, 13, 28, 29, 30, 31, 32, 133, 160}
\* [\x20-\x7E]
IsPrintable(c) == 32 <= c /\ c <= 126
IsDigit(c) == 48 <= c /\ c <= 57

RECURSIVE LStrip(_)
LStrip(s) == IF s # <<>> /\ IsSpace(Head(s)) THEN LStrip(Tail(s)) ELSE s

RECURSIVE RStrip(_)
RStrip(s) ==
    IF s # <<>> /\ IsSpace(s[Len(s)]) THEN RStrip(SubSeq(s, 1, Len(s) - 1)) ELSE s

Strip(s) == RStrip(LStrip(s))

LowerChar(c) == IF 65 <= c /\ c <= 90 THEN c + 32 ELSE c
Lower(s) == [i \in 1..Len(s) |-> LowerChar(s[i])]

\* re.sub(r"\s+", " ", s)
RECURSIVE CollapseSpaces(_)
CollapseSpaces(s) ==
    IF s = <<>> THEN <<>>
    ELSE IF IsSpace(Head(s)) THEN <<32>> \o CollapseSpaces(LStrip(s))
    ELSE <<Head(s)>> \o CollapseSpaces(Tail(s))

\* re.sub(r"[^\x20-\x7E]", "", s)
RemoveNonPrintable(s) == SelectSeq(s, IsPrintable)

----------------------------------------------------------------------------
(* Tables. *)

NoFrame == [index |-> <<>>, pos |-> <<>>, cols |-> <<>>]

NRows(t) == Len(t.index)
NCols(t) == Len(t.cols)

SetCol(t, c, col) == [t EXCEPT !.cols[c] = col]

WithCells(col, cells) == [col EXCEPT !.cells = cells]

AnyNull(cells) == \E i \in 1..Len(cells) : IsNull(cells[i])

IsNumericDtype(col) == col.dtype = "number"

\* the result is written into the object it was computed from, and the local
\* name keeps referring to that object
WrittenBack(h, r, t) == [heap |-> [h EXCEPT ![r] = t], ref |-> r]

\* an operation that returns a new DataFrame: the result is a fresh object and
\* the local name is rebound to it; the object it was computed from is untouched
NewFrame(h, r, t) == [heap |-> [h EXCEPT !.priv = t], ref |-> "priv"]

\* an operation that works on the object the local name refers to
InPlace(h, r, t) == [heap |-> [h EXCEPT ![r] = t], ref |-> r]

----------------------------------------------------------------------------
(* Line 55: df = df.applymap(lambda x: x.strip() if isinstance(x, str) else x) *)

StripCell(x) == IF IsStr(x) THEN Text(Strip(x.s)) ELSE x

StripColumn(col) ==
    WithCells(col, [i \in 1..Len(col.cells) |-> StripCell(col.cells[i])])

ApplymapStrip(t) ==
    [t EXCEPT !.cols = [c \in 1..Len(t.cols) |-> StripColumn(t.cols[c])]]

----------------------------------------------------------------------------
(* Lines 57-63: the .str methods on every object column.  A .str method    *)
(* returns NaN for every element that is not a str.                        *)

StrLower(x) == IF IsStr(x) THEN Text(Lower(x.s)) ELSE Missing
StrCollapse(x) == IF IsStr(x) THEN Text(CollapseSpaces(x.s)) ELSE Missing
StrPrintable(x) == IF IsStr(x) THEN Text(RemoveNonPrintable(x.s)) ELSE Missing

\* what lines 55-63 make of one str
NormalizeText(s) == RemoveNonPrintable(CollapseSpaces(Lower(Strip(s))))

NormalizeColumn(col) ==
    WithCells(col, [i \in 1..Len(col.cells) |->
                       StrPrintable(StrCollapse(StrLower(col.cells[i])))])

NormalizeObjectColumns(t) ==
    [t EXCEPT !.cols =
        [c \in 1..Len(t.cols) |->
            IF t.cols[c].dtype = "object" THEN NormalizeColumn(t.cols[c])
            ELSE t.cols[c]]]

----------------------------------------------------------------------------
(* Lines 66-77: the missing-value strategies, column by column. *)

NonNull(cells) == SelectSeq(cells, LAMBDA x : ~IsNull(x))

\* the order Series.mode() sorts its result in
RECURSIVE SeqLess(_, _)
SeqLess(a, b) ==
    IF b = <<>> THEN FALSE
    ELSE IF a = <<>> THEN TRUE
    ELSE IF Head(a) # Head(b) THEN Head(a) < Head(b)
    ELSE SeqLess(Tail(a), Tail(b))

KindRank(x) == IF x.k = "Number" THEN 0 ELSE IF x.k = "Timestamp" THEN 1 ELSE 2

CellLess(a, b) ==
    IF a.k # b.k THEN KindRank(a) < KindRank(b)
    ELSE IF a.k = "Text" THEN SeqLess(a.s, b.s)
    ELSE QLess(a.v, b.v)

Count(x, cells) == Cardinality({i \in 1..Len(cells) : cells[i] = x})

\* Series.mode(dropna=True): the most frequent values, sorted
Modes(cells) ==
    LET xs == NonNull(cells)
        vals == {xs[i] : i \in 1..Len(xs)}
    IN  {x \in vals : \A y \in vals : Count(y, xs) <= Count(x, xs)}

\* df[col].mode(dropna=True)[0] if not df[col].mode().empty else constant_fill
ModeOrConstant(cells, cf) ==
    LET ms == Modes(cells)
    IN  IF ms = {} THEN cf
        ELSE CHOOSE x \in ms : \A y \in ms : y = x \/ CellLess(x, y)

RECURSIVE QSum(_)
QSum(xs) == IF xs = <<>> THEN <<0, 1>> ELSE QAdd(Head(xs).v, QSum(Tail(xs)))

\* a mean that forgets to divide by the count
MeanAsSum(cells) ==
    LET xs == NonNull(cells)
    IN  IF xs = <<>> THEN Missing
        ELSE LET m == QSum(xs) IN Number(m[1], m[2])

\* Series.mean(): NaN when there is no non-missing value
Mean(cells) ==
    LET xs == NonNull(cells)
    IN  IF xs = <<>> THEN Missing
        ELSE LET m == QDiv(QSum(xs), Len(xs)) IN Number(m[1], m[2])

RECURSIVE Insert(_, _)
Insert(x, sorted) ==
    IF sorted = <<>> THEN <<x>>
    ELSE IF QLess(Head(sorted).v, x.v) THEN <<Head(sorted)>> \o Insert(x, Tail(sorted))
    ELSE <<x>> \o sorted

RECURSIVE Sorted(_)
Sorted(xs) == IF xs = <<>> THEN <<>> ELSE Insert(Head(xs), Sorted(Tail(xs)))

\* Series.median(): NaN when there is no non-missing value
Median(cells) ==
    LET xs == Sorted(NonNull(cells))
        n == Len(xs)
    IN  IF n = 0 THEN Missing
        ELSE IF n % 2 = 1 THEN xs[(n + 1) \div 2]
        ELSE LET m == QDiv(QAdd(xs[n \div 2].v, xs[n \div 2 + 1].v), 2)
             IN  Number(m[1], m[2])

\* the dtype of a column after value was written into it
FilledDtype(dtype, value) ==
    IF dtype = "number" /\ value.k = "Number" THEN "number"
    ELSE IF dtype = "datetime" /\ value.k = "Timestamp" THEN "datetime"
    ELSE "object"

\* Series.fillna(value, inplace=True); filling with NaN changes nothing
FillNa(col, value) ==
    IF IsNull(value) \/ ~AnyNull(col.cells) THEN col
    ELSE [col EXCEPT
            !.dtype = FilledDtype(col.dtype, value),
            !.cells = [i \in 1..Len(col.cells) |->
                          IF IsNull(col.cells[i]) THEN value ELSE col.cells[i]]]

RECURSIVE NonNullRows(_, _)
NonNullRows(cells, i) ==
    IF i > Len(cells) THEN <<>>
    ELSE (IF IsNull(cells[i]) THEN <<>> ELSE <<i>>) \o NonNullRows(cells, i + 1)

KeepRows(t, keep) ==
    [index |-> Pick(t.index, keep),
     pos |-> Pick(t.pos, keep),
     cols |-> [j \in 1..Len(t.cols) |->
                  [t.cols[j] EXCEPT !.cells = Pick(t.cols[j].cells, keep)]]]

\* a concatenation where a filter was meant: the kept rows are appended
DropNaAppend(t, c) ==
    KeepRows(t, [i \in 1..NRows(t) |-> i] \o NonNullRows(t.cols[c].cells, 1))

\* df.dropna(subset=[col])
DropNa(t, c) == KeepRows(t, NonNullRows(t.cols[c].cells, 1))

\* the body of the loop of line 66 for column c
ResolveColumn(t, c, fm, cf) ==
    LET col == t.cols[c]
    IN  IF ~AnyNull(col.cells) THEN t
        ELSE IF fm = "mode"
            THEN SetCol(t, c, FillNa(col, ModeOrConstant(col.cells, cf)))
        ELSE IF fm = "mean" /\ IsNumericDtype(col)
            THEN SetCol(t, c, FillNa(col, Mean(col.cells)))
        ELSE IF fm = "median" /\ IsNumericDtype(col)
            THEN SetCol(t, c, FillNa(col, Median(col.cells)))
        ELSE IF fm = "constant"
            THEN SetCol(t, c, FillNa(col, cf))
        ELSE IF fm = "drop"
            THEN DropNa(t, c)
        ELSE t

RECURSIVE ResolveFrom(_, _, _, _)
ResolveFrom(t, c, fm, cf) ==
    IF c > NCols(t) THEN t
    ELSE ResolveFrom(ResolveColumn(t, c, fm, cf), c + 1, fm, cf)

----------------------------------------------------------------------------
(* Lines 80-86: pd.to_numeric and pd.to_datetime with errors="ignore". *)

RECURSIVE DecimalValue(_)
DecimalValue(s) ==
    IF s = <<>> THEN 0
    ELSE 10 * DecimalValue(SubSeq(s, 1, Len(s) - 1)) + (s[Len(s)] - 48)

IsNumeral(s) == s # <<>> /\ \A i \in 1..Len(s) : IsDigit(s[i])

\* a day of the current year written month-day, such as "1-2"
IsDateLiteral(s) ==
    /\ Len(s) = 3
    /\ s[2] = 45
    /\ IsDigit(s[1]) /\ s[1] # 48
    /\ IsDigit(s[3]) /\ s[3] # 48

\* to_numeric on one element: the empty string converts to NaN
NumericOf(x) ==
    IF x.k = "Missing" \/ x.k = "Number" THEN x
    ELSE IF x.k = "Text" /\ x.s = <<>> THEN Missing
    ELSE IF x.k = "Text" /\ IsNumeral(x.s) THEN Number(DecimalValue(x.s), 1)
    ELSE Fail

\* to_datetime on one element: the empty string converts to NaT, a number is
\* an offset from the epoch
DatetimeOf(x) ==
    IF x.k = "Missing" \/ x.k = "Timestamp" THEN x
    ELSE IF x.k = "Number" THEN Timestamp(x.v[1] \div x.v[2])
    ELSE IF x.k = "Text" /\ x.s = <<>> THEN Missing
    ELSE IF x.k = "Text" /\ IsDateLiteral(x.s)
        THEN Timestamp(100 * (x.s[1] - 48) + (x.s[3] - 48))
    ELSE Fail

\* errors="ignore": the input is returned when any element fails
ConvertOrIgnore(col, dtype, cells) ==
    IF \E i \in 1..Len(cells) : cells[i] = Fail THEN col
    ELSE [col EXCEPT !.dtype = dtype, !.cells = cells]

ToNumeric(col) ==
    ConvertOrIgnore(col, "number",
                    [i \in 1..Len(col.cells) |-> NumericOf(col.cells[i])])

ToDatetime(col) ==
    ConvertOrIgnore(col, "datetime",
                    [i \in 1..Len(col.cells) |-> DatetimeOf(col.cells[i])])

\* the body of the loop of line 80
CoerceColumn(col) ==
    LET a == IF col.dtype = "object" THEN ToNumeric(col) ELSE col
    IN  IF a.dtype = "object" THEN ToDatetime(a) ELSE a

CoerceAll(t) ==
    [t EXCEPT !.cols = [c \in 1..Len(t.cols) |-> CoerceColumn(t.cols[c])]]

----------------------------------------------------------------------------
(* Line 89: df.reset_index(drop=True, inplace=True) *)

\* reset_index without inplace=True: the result is discarded
ResetIndexDiscarded(t) == t

ResetIndex(t) == [t EXCEPT !.index = [i \in 1..NRows(t) |-> i - 1]]

----------------------------------------------------------------------------
(* The tables and configurations the call is made with. *)

\* "unknown", the default of constant_fill
Unknown == Text(<<117, 110, 107, 110, 111, 119, 110>>)

\* (fill_missing, constant_fill); constant_fill is read by "mode" and "constant"
Configs ==
    {<<"mode", Unknown>>, <<"mode", Number(0, 1)>>,
     <<"mean", Unknown>>, <<"median", Unknown>>,
     <<"constant", Unknown>>, <<"constant", Number(0, 1)>>,
     <<"drop", Unknown>>}

\* the columns of n rows with cells from pool; an object column holds at
\* least one str (a column without one is not loaded as object)
Columns(name, dtype, pool, n) ==
    {[name |-> name, dtype |-> dtype, cells |-> cs] :
        cs \in {f \in [1..n -> pool] :
                   dtype = "object" => \E i \in 1..n : IsStr(f[i])}}

RangeIndex(n) == [i \in 1..n |-> i - 1]
EvenIndex(n) == [i \in 1..n |-> 2 * i]

Frame(index, cols) ==
    [index |-> index, pos |-> [i \in 1..Len(index) |-> i], cols |-> cols]

\* "A", "1"
FruitPool == {Missing, Text(<<65>>), Text(<<49>>)}
QtyPool == {Missing, Number(1, 1), Number(2, 1)}

\* a text column and a numeric column
MixedTables ==
    UNION {{Frame(RangeIndex(n), <<a, b>>) :
               a \in Columns("fruit", "object", FruitPool, n),
               b \in Columns("qty", "number", QtyPool, n)} : n \in 1..MaxRows}

\* " ", "1", " A", "1-2", and cells that are not text
TextPool ==
    {Missing, Number(1, 1), Timestamp(102), Text(<<32>>), Text(<<49>>),
     Text(<<32, 65>>), Text(<<49, 45, 50>>)}

\* one object column that mixes text with other cells
TextTables ==
    UNION {{Frame(ix, <<a>>) :
               a \in Columns("fruit", "object", TextPool, n),
               ix \in {RangeIndex(n), EvenIndex(n)}} : n \in 1..TextRows}

NumPool == {Missing, Number(1, 1), Number(2, 1), Number(4, 1)}

\* one numeric column
NumTables ==
    UNION {{Frame(RangeIndex(n), <<a>>) :
               a \in Columns("qty", "number", NumPool, n)} : n \in 1..NumRows}

\* SOH, tab, space, "A", "a"
Alphabet == {1, 9, 32, 65, 97}

Strings == UNION {[1..n -> Alphabet] : n \in 0..MaxLen}

\* one text cell
StringTables ==
    {Frame(RangeIndex(1), <<[name |-> "fruit", dtype |-> "object", cells |-> <<Text(s)>>]>>) :
        s \in Strings}

----------------------------------------------------------------------------
(* The call. *)

InitWith(tables, configs) ==
    /\ arg \in tables
    /\ \E cfg \in configs : fill_missing = cfg[1] /\ constant_fill = cfg[2]
    /\ heap = [caller |-> arg, priv |-> NoFrame]
    /\ df = "caller"
    /\ pc = "copy"

Init == InitWith(MixedTables \cup TextTables \cup NumTables, Configs)

InitStrings == InitWith(StringTables, {<<"constant", Unknown>>})

Goto(to, r) ==
    /\ pc' = to
    /\ heap' = r.heap
    /\ df' = r.ref
    /\ UNCHANGED <<fill_missing, constant_fill, arg>>

\* line 52: df = df.copy()
Copy ==
    /\ pc = "copy"
    /\ Goto("strip", NewFrame(heap, df, heap[df]))

\* line 55
StripStrings ==
    /\ pc = "strip"
    /\ Goto("normalize", NewFrame(heap, df, ApplymapStrip(heap[df])))

\* lines 57-63: df[col] = ... writes the column into the object df refers to
Normalize ==
    /\ pc = "normalize"
    /\ Goto("resolve", InPlace(heap, df, NormalizeObjectColumns(heap[df])))

\* lines 66-77: the fills write into the object df refers to; dropna returns a
\* new DataFrame, which df is rebound to
Resolve ==
    /\ pc = "resolve"
    /\ LET t == heap[df]
           r == ResolveFrom(t, 1, fill_missing, constant_fill)
       IN  Goto("coerce",
                IF fill_missing = "drop" /\ r # t THEN NewFrame(heap, df, r)
                ELSE InPlace(heap, df, r))

\* lines 80-86
Coerce ==
    /\ pc = "coerce"
    /\ Goto("reset", InPlace(heap, df, CoerceAll(heap[df])))

\* lines 89-91: the index is reset in place and df is returned
Return ==
    /\ pc = "reset"
    /\ Goto("done", InPlace(heap, df, ResetIndex(heap[df])))

Next == Copy \/ StripStrings \/ Normalize \/ Resolve \/ Coerce \/ Return

Spec == Init /\ [][Next]_vars

SpecStrings == InitStrings /\ [][Next]_vars

\* the table clean_dataframe returns
Returned == heap[df]

\* line 94: the column the reconciliation reads and the column it writes
FuzzyColumn == "fruit"
CleanedColumn == "fruit_cleaned"

----------------------------------------------------------------------------
(* The claims. *)

Cell(t, c, i) == t.cols[c].cells[i]
ColNums(t) == 1..NCols(t)
RowNums(t) == 1..NRows(t)

\* C1: no stage adds a row, and the returned table has at most as many rows
\* as the table passed in, whatever fill_missing and constant_fill are.
C1_RowCountNeverIncreases ==
    [][/\ NRows(heap'[df']) <= NRows(heap[df])
       /\ pc' = "done" => NRows(heap'[df']) <= NRows(arg)]_vars

\* "drop" removed some rows of the input and kept others
C1_Witness ==
    /\ pc = "done"
    /\ fill_missing = "drop"
    /\ 0 < NRows(Returned)
    /\ NRows(Returned) < NRows(arg)

\* C2: at every point of the call the caller's table is equal, in index,
\* columns and cells, to the table that was passed in.
C2_CallerTableNeverMutated == heap.caller = arg

\* the in-place fills replaced every Missing cell of the table passed in
C2_Witness ==
    /\ pc = "done"
    /\ fill_missing \in {"mode", "constant"}
    /\ \E c \in ColNums(arg) : AnyNull(arg.cols[c].cells)
    /\ \A c \in ColNums(Returned) : ~AnyNull(Returned.cols[c].cells)
    /\ Returned # arg

\* C3: with fill_missing = "constant" the returned table holds no Missing
\* cell.
C3_ConstantFillLeavesNoMissing ==
    (pc = "done" /\ fill_missing = "constant")
        => \A c \in ColNums(Returned) : ~AnyNull(Returned.cols[c].cells)

\* C4: the returned table holds no two rows that are equal in every column.
C4_NoDuplicateRows ==
    pc = "done"
        => \A i, j \in RowNums(Returned) :
              i < j => \E c \in ColNums(Returned) :
                          Cell(Returned, c, i) # Cell(Returned, c, j)

HasDoubleSpace(s) == \E i \in 1..(Len(s) - 1) : s[i] = 32 /\ s[i + 1] = 32

\* C5: normalizing a normalized text changes nothing; a normalized text has
\* no leading or trailing whitespace and no run of two spaces.
C5_NormalizationIdempotent ==
    pc = "resolve"
        => \A c \in ColNums(heap[df]) : \A i \in RowNums(heap[df]) :
              LET x == Cell(heap[df], c, i)
              IN  IsStr(x) =>
                     /\ NormalizeText(x.s) = x.s
                     /\ Strip(x.s) = x.s
                     /\ ~HasDoubleSpace(x.s)

\* C6: after the normalization stage every cell that was not Text in the
\* input has the value it had in the input.
C6_NonTextCellsUnchanged ==
    pc = "resolve"
        => \A c \in ColNums(arg) : \A i \in RowNums(arg) :
              ~IsStr(Cell(arg, c, i)) => Cell(heap[df], c, i) = Cell(arg, c, i)

\* C7: when the input has the reconciled column, the returned table has one
\* more column, the last, named after it with the suffix _cleaned, which holds
\* the non-Text cells of the reconciled column verbatim.
C7_ReconciledColumnAppended ==
    pc = "done"
        => \A c \in ColNums(arg) :
              arg.cols[c].name = FuzzyColumn =>
                 /\ NCols(Returned) = NCols(arg) + 1
                 /\ LET last == Returned.cols[NCols(Returned)]
                    IN  /\ last.name = CleanedColumn
                        /\ \A i \in RowNums(Returned) :
                              ~IsStr(Cell(Returned, c, i))
                                  => last.cells[i] = Cell(Returned, c, i)

ParsesAsNumber(x) == x.k = "Number" \/ (IsStr(x) /\ IsNumeral(x.s))

\* C8: the coercion stage makes a text column numeric exactly when every
\* non-missing cell parses as a number, and then every non-missing cell is a
\* number and every missing cell is still missing; a column that stays text
\* is unchanged; a column that is not text is not touched.
C8_AllOrNothingNumericFirst ==
    [][pc = "coerce" =>
          \A c \in ColNums(heap[df]) :
             LET b == heap[df].cols[c]
                 a == heap'[df'].cols[c]
                 allnum == \A i \in 1..Len(b.cells) :
                              IsNull(b.cells[i]) \/ ParsesAsNumber(b.cells[i])
             IN  IF b.dtype # "object" THEN a = b
                 ELSE /\ (a.dtype = "number") <=> allnum
                      /\ a.dtype = "number" =>
                            \A i \in 1..Len(b.cells) :
                               IF IsNull(b.cells[i]) THEN IsNull(a.cells[i])
                               ELSE a.cells[i].k = "Number"
                      /\ a.dtype = "object" => a = b]_vars

IsMeanOf(v, xs) ==
    LET sum == QSum(xs) IN v[1] * sum[2] * Len(xs) = sum[1] * v[2]

\* m is the k-th smallest of xs
IsKthSmallest(m, xs, k) ==
    /\ \E i \in 1..Len(xs) : xs[i].v = m
    /\ Cardinality({i \in 1..Len(xs) : QLess(xs[i].v, m)}) <= k - 1
    /\ Cardinality({i \in 1..Len(xs) : ~QLess(m, xs[i].v)}) >= k

IsMedianOf(v, xs) ==
    LET n == Len(xs)
    IN  IF n % 2 = 1 THEN IsKthSmallest(v, xs, (n + 1) \div 2)
        ELSE \E i, j \in 1..n :
                /\ IsKthSmallest(xs[i].v, xs, n \div 2)
                /\ IsKthSmallest(xs[j].v, xs, n \div 2 + 1)
                /\ LET sum == QAdd(xs[i].v, xs[j].v)
                   IN  2 * v[1] * sum[2] = sum[1] * v[2]

IsStat(stat, v, xs) ==
    IF stat = "mean" THEN IsMeanOf(v, xs) ELSE IsMedianOf(v, xs)

FilledWith(stat, b, a) ==
    LET xs == NonNull(b.cells)
    IN  IF IsNumericDtype(b) /\ AnyNull(b.cells) /\ xs # <<>>
        THEN /\ a.name = b.name
             /\ a.dtype = b.dtype
             /\ Len(a.cells) = Len(b.cells)
             /\ \A i \in 1..Len(b.cells) :
                   IF IsNull(b.cells[i])
                   THEN a.cells[i].k = "Number" /\ IsStat(stat, a.cells[i].v, xs)
                   ELSE a.cells[i] = b.cells[i]
        ELSE a = b

\* C9: under "mean" (resp. "median") the resolver stage replaces each Missing
\* cell of a numeric column that has a non-missing cell by the mean (resp.
\* median) of the column's non-missing cells and changes no other cell; it
\* leaves every non-numeric column, and every numeric column whose cells are
\* all Missing, as it was.
C9_MeanMedianFill ==
    [][(pc = "resolve" /\ fill_missing \in {"mean", "median"}) =>
          /\ NCols(heap'[df']) = NCols(heap[df])
          /\ \A c \in ColNums(heap[df]) :
                FilledWith(fill_missing, heap[df].cols[c], heap'[df'].cols[c])]_vars

\* the median of 1, 2, 4 filled the Missing cell of [1, Missing, 2, 4], where
\* the mean is 7/3
C9_Witness ==
    /\ pc = "coerce"
    /\ fill_missing = "median"
    /\ arg.cols[1].dtype = "number"
    /\ arg.cols[1].cells = <<Number(1, 1), Missing, Number(2, 1), Number(4, 1)>>
    /\ heap[df].cols[1].cells = <<Number(1, 1), Number(2, 1), Number(2, 1), Number(4, 1)>>

\* C10: the returned table's index is 0, 1, ..., n-1 and its rows are in the
\* order they had in the input.
C10_DenseIndexSameOrder ==
    pc = "done"
        => /\ Returned.index = [i \in RowNums(Returned) |-> i - 1]
           /\ \A i, j \in RowNums(Returned) :
                 i < j => Returned.pos[i] < Returned.pos[j]

\* "drop" removed a row between two rows it kept
C10_Witness ==
    /\ pc = "done"
    /\ fill_missing = "drop"
    /\ \E i \in 1..(NRows(Returned) - 1) :
          Returned.pos[i + 1] > Returned.pos[i] + 1

====
